---- MODULE Spec2Model ----
(***************************************************************************)
(* A model of app.py, the Amazon Reviews Dashboard: the script's top-level *)
(* set-up (ASIN text area, override mapping, password gate), the "Fetch    *)
(* Reviews" handler with its sequential batch loop, and the aggregation,   *)
(* totals row and export that follow the loop.                             *)
(*                                                                         *)
(* Python and JSON values are tagged records, so that None, NaN, strings,  *)
(* numbers, dicts and lists can sit in the same field.  Text is a sequence *)
(* of one-character strings, so that strip(), upper(), lower() and the     *)
(* substring test are computed.  Ratings are integers in thousandths       *)
(* (4500 is 4.5): round(x, 3) is then rounding a quotient to an integer.   *)
(***************************************************************************)
EXTENDS Integers, Sequences, FiniteSets, TLC

VARIABLES API_KEY,            \* the credential (line 13)
          ASINS,              \* the identifiers of the text area (line 30)
          mapping_dict,       \* the override mapping (lines 32-66)
          pc,                 \* where the script is
          i,                  \* identifiers processed by the loop (line 80)
          results,            \* the records appended so far (line 75)
          credits_used,       \* line 77
          credits_remaining,  \* line 78
          fetched,            \* the remote's answers so far, one per request
          notices,            \* st.error / st.warning / st.info shown
          df,                 \* the frame after numeric coercion (160-172)
          unweighted_mean,    \* line 176
          weighted_mean,      \* line 181
          total_reviews_sum,  \* line 182
          star_totals,        \* total_5 .. total_1 (188-192)
          totals_row,         \* line 195
          exported            \* which download was offered (236-261)

vars == <<API_KEY, ASINS, mapping_dict, pc, i, results, credits_used,
          credits_remaining, fetched, notices, df, unweighted_mean,
          weighted_mean, total_reviews_sum, star_totals, totals_row, exported>>

---------------------------------------------------------------------------
(* Values *)

None == [t |-> "none"]
NaN == [t |-> "nan"]
Num(n) == [t |-> "num", v |-> n]
Str(s) == [t |-> "str", v |-> s]
Dict(d) == [t |-> "dict", v |-> d]
List(l) == [t |-> "list", v |-> l]

IsNum(x) == x.t = "num"
IsStr(x) == x.t = "str"
IsDict(x) == x.t = "dict"
IsList(x) == x.t = "list"

\* the dict with no key
EmptyDict == Dict(<<>>)

\* d.get(k, default) of a dict d
Get(d, k, default) == IF k \in DOMAIN d.v THEN d.v[k] ELSE default

\* Python truth of a value: `if x` / `not x`
Truthy(x) ==
    CASE x.t = "none" -> FALSE
      [] x.t = "nan" -> TRUE
      [] x.t = "num" -> x.v # 0
      [] x.t = "str" -> Len(x.v) > 0
      [] x.t = "dict" -> DOMAIN x.v # {}
      [] x.t = "list" -> Len(x.v) > 0

\* pd.notna
NotNa(x) == x.t \notin {"none", "nan"}

---------------------------------------------------------------------------
(* Text *)

Uppers == <<"A","B","C","D","E","F","G","H","I","J","K","L","M",
            "N","O","P","Q","R","S","T","U","V","W","X","Y","Z">>
Lowers == <<"a","b","c","d","e","f","g","h","i","j","k","l","m",
            "n","o","p","q","r","s","t","u","v","w","x","y","z">>

UpperChar(c) ==
    IF \E k \in DOMAIN Lowers : Lowers[k] = c
    THEN Uppers[CHOOSE k \in DOMAIN Lowers : Lowers[k] = c]
    ELSE c

LowerChar(c) ==
    IF \E k \in DOMAIN Uppers : Uppers[k] = c
    THEN Lowers[CHOOSE k \in DOMAIN Uppers : Uppers[k] = c]
    ELSE c

\* str.upper
Upper(s) == [k \in DOMAIN s |-> UpperChar(s[k])]

\* str.lower
Lower(s) == [k \in DOMAIN s |-> LowerChar(s[k])]

RECURSIVE LStrip(_)
LStrip(s) == IF s # <<>> /\ Head(s) = " " THEN LStrip(Tail(s)) ELSE s

RECURSIVE RStrip(_)
RStrip(s) ==
    IF s # <<>> /\ s[Len(s)] = " " THEN RStrip(SubSeq(s, 1, Len(s) - 1)) ELSE s

\* str.strip
Strip(s) == RStrip(LStrip(s))

\* `token in name`
Contains(name, token) ==
    \E k \in 0..(Len(name) - Len(token)) :
        SubSeq(name, k + 1, k + Len(token)) = token

Digits == <<"0","1","2","3","4","5","6","7","8","9">>

IsDigit(c) == \E k \in DOMAIN Digits : Digits[k] = c

DigitValue(c) == (CHOOSE k \in DOMAIN Digits : Digits[k] = c) - 1

RECURSIVE ParseDigits(_)
ParseDigits(s) ==
    IF s = <<>> THEN 0
    ELSE 10 * ParseDigits(SubSeq(s, 1, Len(s) - 1)) + DigitValue(s[Len(s)])

---------------------------------------------------------------------------
(* Set-up: the script's top level, lines 13-66 *)

NonBlank(a) == Strip(a) # <<>>

StripLine(a) == Strip(a)

\* line 30: [a.strip() for a in asins_text.splitlines() if a.strip()]
ParseLines(lines) ==
    LET kept == SelectSeq(lines, NonBlank)
    IN  [k \in DOMAIN kept |-> StripLine(kept[k])]

\* astype(str) of a cell: a missing cell reads "nan"
AsStr(x) == IF IsStr(x) THEN x.v ELSE <<"n", "a", "n">>

\* line 60: astype(str).str.strip().str.upper()
NormalizeKey(x) == Upper(Strip(AsStr(x)))

\* line 117: asin.strip().upper()
LookupKey(asin) == Upper(Strip(asin))

\* lines 35-66: the mapping read from the rows of ASINs.csv, keyed by the
\* normalized ASIN (to_dict keeps the last row of a repeated key); a file that
\* is missing or cannot be read leaves the mapping empty
LoadMapping(file) ==
    IF ~IsList(file) THEN EmptyDict
    ELSE LET rows == file.v
             keys == {NormalizeKey(rows[k].ASIN) : k \in DOMAIN rows}
             last(key) == CHOOSE k \in DOMAIN rows :
                              /\ NormalizeKey(rows[k].ASIN) = key
                              /\ \A j \in DOMAIN rows :
                                     NormalizeKey(rows[j].ASIN) = key => j <= k
         IN  Dict([key \in keys |->
                      Dict([Design |-> rows[last(key)].Design,
                            Size |-> rows[last(key)].Size])])

\* lines 64-66: what the loader reports
LoadNotices(file) ==
    CASE IsList(file) -> <<"info: loaded mapping">>
      [] file.t = "malformed" -> <<"warning: could not read mapping file">>
      [] OTHER -> <<>>

\* lines 19-22: st.stop() unless no password is set or the one typed matches
PasswordGate(app_password, pw) == ~Truthy(app_password) \/ pw = app_password

---------------------------------------------------------------------------
(* The record fetcher: the body of the loop, lines 89-154 *)

TokRozmiar == <<"r","o","z","m","i","a","r">>
TokSize == <<"s","i","z","e">>
TokColour == <<"c","o","l","o","u","r">>
TokColor == <<"c","o","l","o","r">>
TokDedesignsen == <<"d","e","d","e","s","i","g","n","s","e","n">>

\* line 109
IsSizeName(name) == Contains(name, TokRozmiar) \/ Contains(name, TokSize)

\* line 112
IsDesignName(name) ==
    Contains(name, TokColour) \/ Contains(name, TokColor)
        \/ Contains(name, TokDedesignsen)

\* the last match wins
KeepLast(cur, val) == val

\* lines 110-111 and 113-114: `if not cur: cur = val`
Keep(cur, val) == IF ~Truthy(cur) THEN val ELSE cur

\* lines 104-114: the scan of the specification list from position k on;
\* raised when an entry is no dict or its name is no string
RECURSIVE ScanFrom(_, _, _, _)
ScanFrom(specs, k, design, size) ==
    IF k > Len(specs) THEN [raised |-> FALSE, design |-> design, size |-> size]
    ELSE LET spec == specs[k] IN
         IF ~IsDict(spec) \/ ~IsStr(Get(spec, "name", Str(<<>>)))
         THEN [raised |-> TRUE, design |-> design, size |-> size]
         ELSE LET name == Lower(Get(spec, "name", Str(<<>>)).v)
                  val == Get(spec, "value", None)
              IN  IF val = None THEN ScanFrom(specs, k + 1, design, size)
                  ELSE ScanFrom(specs, k + 1,
                           IF IsDesignName(name) THEN Keep(design, val) ELSE design,
                           IF IsSizeName(name) THEN Keep(size, val) ELSE size)

\* lines 99-114: design and size start at None; the scan runs when the product
\* is truthy.  Iterating a value that is no list raises, except that an empty
\* string or dict iterates over nothing.
ExtractAttributes(product) ==
    LET none == [raised |-> FALSE, design |-> None, size |-> None] IN
    IF ~Truthy(product) THEN none
    ELSE IF ~IsDict(product) THEN [none EXCEPT !.raised = TRUE]
    ELSE LET specs == Get(product, "specifications", List(<<>>)) IN
         IF IsList(specs) THEN ScanFrom(specs.v, 1, None, None)
         ELSE IF (IsStr(specs) \/ IsDict(specs)) /\ ~Truthy(specs) THEN none
         ELSE [none EXCEPT !.raised = TRUE]

\* the test without the blank check
UsableNotNa(m) == NotNa(m)

\* lines 123 and 125: pd.notna(m) and str(m).strip() != ""
Usable(m) == NotNa(m) /\ Strip(AsStr(m)) # <<>>

\* lines 117-126: a mapping value that is usable replaces the API's
ApplyOverride(mapping, asin, design, size) ==
    LET map_entry == Get(mapping, LookupKey(asin), None) IN
    IF ~Truthy(map_entry) THEN [design |-> design, size |-> size]
    ELSE LET m_design == Get(map_entry, "Design", None)
             m_size == Get(map_entry, "Size", None)
         IN  [design |-> IF Usable(m_design) THEN m_design ELSE design,
              size |-> IF Usable(m_size) THEN m_size ELSE size]

StarKeys == <<"five_star", "four_star", "three_star", "two_star", "one_star">>

\* lines 129-133 and 150-154: the record with every numeric field None
NullRecord(asin, design, size) ==
    [ASIN |-> asin, Design |-> design, Size |-> size,
     AverageRating |-> None, TotalReviews |-> None,
     Stars |-> [k \in 1..5 |-> None]]

\* lines 135-147; raised when the breakdown or one of its buckets is no dict
RatedRecord(asin, design, size, product) ==
    LET br == Get(product, "rating_breakdown", EmptyDict) IN
    IF ~IsDict(br) \/ \E k \in 1..5 : ~IsDict(Get(br, StarKeys[k], EmptyDict))
    THEN [raised |-> TRUE, record |-> NullRecord(asin, None, None)]
    ELSE [raised |-> FALSE,
          record |-> [ASIN |-> asin, Design |-> design, Size |-> size,
                      AverageRating |-> Get(product, "rating", None),
                      TotalReviews |-> Get(product, "ratings_total", None),
                      Stars |-> [k \in 1..5 |->
                          Get(Get(br, StarKeys[k], EmptyDict), "count", Num(0))]]]

\* The answer of the remote to one request: Raise when requests.get or
\* r.json() raises, otherwise the decoded body.
Raise == [t |-> "raise"]

\* lines 148-154: the handler of any exception of the try block
Except(asin, cu, cr) ==
    [raised |-> TRUE, record |-> NullRecord(asin, None, None),
     credits_used |-> cu, credits_remaining |-> cr]

\* a counter that adds up what the responses carry instead of replacing it
UpdateCreditAccumulating(info, key, cur) ==
    IF key \in DOMAIN info.v
    THEN Num((IF cur.t = "num" THEN cur.v ELSE 0) + info.v[key].v)
    ELSE cur

\* lines 93-95: each counter is replaced when the usage info carries it
UpdateCredit(info, key, cur) == Get(info, key, cur)

\* lines 89-154: one pass of the try block on the remote's answer
FetchRecord(asin, resp, cu, cr, mapping) ==
    IF ~IsDict(resp) THEN Except(asin, cu, cr)
    ELSE LET info == Get(resp, "request_info", EmptyDict) IN
    IF ~IsDict(info) THEN Except(asin, cu, cr)
    ELSE LET cu2 == UpdateCredit(info, "credits_used", cu)
             cr2 == UpdateCredit(info, "credits_remaining", cr)
             product == Get(resp, "product", EmptyDict)
             api == ExtractAttributes(product)
         IN
    IF api.raised THEN Except(asin, cu2, cr2)
    ELSE LET ov == ApplyOverride(mapping, asin, api.design, api.size) IN
    IF ~Truthy(product) \/ "rating" \notin DOMAIN product.v
    THEN [raised |-> FALSE, record |-> NullRecord(asin, ov.design, ov.size),
          credits_used |-> cu2, credits_remaining |-> cr2]
    ELSE LET rated == RatedRecord(asin, ov.design, ov.size, product) IN
         IF rated.raised THEN Except(asin, cu2, cr2)
         ELSE [raised |-> FALSE, record |-> rated.record,
               credits_used |-> cu2, credits_remaining |-> cr2]

---------------------------------------------------------------------------
(* Aggregation: lines 160-206 *)

\* round(x, 3) keeps thousandths; a rating n stands for n / RatingUnit
RatingUnit == 1000

AllDigits(s) == s # <<>> /\ \A k \in DOMAIN s : IsDigit(s[k])

\* pd.to_numeric(errors='coerce') of one cell, in units of 1 / unit
ToNumeric(x, unit) ==
    CASE IsNum(x) -> x
      [] IsStr(x) /\ AllDigits(x.v) -> Num(ParseDigits(x.v) * unit)
      [] OTHER -> NaN

\* fillna(0)
FillNa(x) == IF NotNa(x) THEN x.v ELSE 0

\* line 170: to_numeric, fillna(0), astype(int)
StarCount(x) == Num(FillNa(ToNumeric(x, 1)))

\* lines 160-172: the frame of the records with its numeric columns coerced
Coerce(r) ==
    [r EXCEPT !.AverageRating = ToNumeric(r.AverageRating, RatingUnit),
              !.TotalReviews = ToNumeric(r.TotalReviews, 1),
              !.Stars = [k \in 1..5 |-> StarCount(r.Stars[k])]]

Frame(recs) == [k \in DOMAIN recs |-> Coerce(recs[k])]

RECURSIVE Sum(_)
Sum(s) == IF s = <<>> THEN 0 ELSE Head(s) + Sum(Tail(s))

\* round(num / den) to the nearest integer, a tie to the even one
RoundHalfEven(num, den) ==
    LET q == num \div den
        r == num % den
    IN  IF 2 * r < den THEN q
        ELSE IF 2 * r > den THEN q + 1
        ELSE IF q % 2 = 0 THEN q ELSE q + 1

HasRating(r) == NotNa(r.AverageRating)

HasTotal(r) == NotNa(r.TotalReviews)

\* the mean over every row, a missing rating counting as 0
UnweightedMeanAllRows(frame) ==
    IF Len(frame) > 0
    THEN Num(RoundHalfEven(Sum([k \in DOMAIN frame |-> FillNa(frame[k].AverageRating)]),
                           Len(frame)))
    ELSE None

\* lines 176-178
UnweightedMean(frame) ==
    LET rated == SelectSeq(frame, HasRating) IN
    IF Len(rated) > 0
    THEN Num(RoundHalfEven(Sum([k \in DOMAIN rated |-> rated[k].AverageRating.v]),
                           Len(rated)))
    ELSE None

\* line 182
TotalReviewsSum(frame) ==
    LET counted == SelectSeq(frame, HasTotal) IN
    IF Len(counted) > 0
    THEN Sum([k \in DOMAIN counted |-> counted[k].TotalReviews.v])
    ELSE 0

\* line 184
WeightedVal(frame) ==
    Sum([k \in DOMAIN frame |->
            FillNa(frame[k].AverageRating) * FillNa(frame[k].TotalReviews)])

\* lines 181-185
WeightedMean(frame) ==
    IF TotalReviewsSum(frame) > 0
    THEN Num(RoundHalfEven(WeightedVal(frame), TotalReviewsSum(frame)))
    ELSE None

\* every total read from the 5-star column
StarTotalFirstColumn(frame, k) == Sum([j \in DOMAIN frame |-> frame[j].Stars[1].v])

\* lines 188-192
StarTotal(frame, k) == Sum([j \in DOMAIN frame |-> frame[j].Stars[k].v])

GrandTotal == <<"G","R","A","N","D"," ","T","O","T","A","L">>

\* lines 195-206
TotalsRow(frame) ==
    [ASIN |-> GrandTotal, Design |-> None, Size |-> None,
     AverageRating |-> UnweightedMean(frame),
     TotalReviews |-> Num(TotalReviewsSum(frame)),
     Stars |-> [k \in 1..5 |-> Num(StarTotal(frame, k))]]

---------------------------------------------------------------------------
(* The script *)

\* The state when the page has rendered, before any click: lines 13-66.
InitWith(Keys, Passwords, Typed, Texts, Files) ==
    \E key \in Keys, app_password \in Passwords, pw \in Typed,
       text \in Texts, file \in Files :
        /\ API_KEY = key
        /\ ASINS = ParseLines(text)
        /\ mapping_dict = LoadMapping(file)
        /\ notices = LoadNotices(file)
        /\ pc = IF PasswordGate(app_password, pw) THEN "ready" ELSE "stopped"
        /\ i = 0
        /\ results = <<>>
        /\ credits_used = None
        /\ credits_remaining = None
        /\ fetched = <<>>
        /\ df = <<>>
        /\ unweighted_mean = None
        /\ weighted_mean = None
        /\ total_reviews_sum = None
        /\ star_totals = <<>>
        /\ totals_row = None
        /\ exported = "none"

\* the click without the empty-list guard of line 71
ClickFetchAnyList ==
    /\ pc = "ready"
    /\ IF ~Truthy(API_KEY)
       THEN /\ notices' = Append(notices, "error: API key not found")
            /\ pc' = "blocked"
            /\ UNCHANGED <<credits_used, credits_remaining>>
       ELSE /\ pc' = "loop"
            /\ credits_used' = Num(0)
            /\ credits_remaining' = None
            /\ UNCHANGED notices
    /\ UNCHANGED <<API_KEY, ASINS, mapping_dict, i, results, fetched, df,
                   unweighted_mean, weighted_mean, total_reviews_sum,
                   star_totals, totals_row, exported>>

\* lines 68-78: the click on "Fetch Reviews" and its two guards
ClickFetch ==
    /\ pc = "ready"
    /\ IF ~Truthy(API_KEY)
       THEN /\ notices' = Append(notices, "error: API key not found")
            /\ pc' = "blocked"
            /\ UNCHANGED <<credits_used, credits_remaining>>
       ELSE IF Len(ASINS) = 0
       THEN /\ notices' = Append(notices, "warning: enter at least one ASIN")
            /\ pc' = "blocked"
            /\ UNCHANGED <<credits_used, credits_remaining>>
       ELSE /\ pc' = "loop"
            /\ credits_used' = Num(0)
            /\ credits_remaining' = None
            /\ UNCHANGED notices
    /\ UNCHANGED <<API_KEY, ASINS, mapping_dict, i, results, fetched, df,
                   unweighted_mean, weighted_mean, total_reviews_sum,
                   star_totals, totals_row, exported>>

\* a loop that fetches an identifier only the first time it occurs
FetchItemDedup(Responses) ==
    /\ pc = "loop"
    /\ i < Len(ASINS)
    /\ IF \E k \in 1..i : ASINS[k] = ASINS[i + 1]
       THEN UNCHANGED <<results, credits_used, credits_remaining, fetched, notices>>
       ELSE \E resp \in Responses :
            LET out == FetchRecord(ASINS[i + 1], resp, credits_used,
                                   credits_remaining, mapping_dict)
            IN  /\ results' = Append(results, out.record)
                /\ credits_used' = out.credits_used
                /\ credits_remaining' = out.credits_remaining
                /\ fetched' = Append(fetched, resp)
                /\ notices' = IF out.raised
                              THEN Append(notices, "error: fetching")
                              ELSE notices
    /\ i' = i + 1
    /\ UNCHANGED <<API_KEY, ASINS, mapping_dict, pc, df, unweighted_mean,
                   weighted_mean, total_reviews_sum, star_totals, totals_row,
                   exported>>

\* a loop that leaves at the first exception (a `break` in the handler)
FetchItemAbortOnError(Responses) ==
    /\ pc = "loop"
    /\ i < Len(ASINS)
    /\ \E resp \in Responses :
        LET out == FetchRecord(ASINS[i + 1], resp, credits_used,
                               credits_remaining, mapping_dict)
        IN  /\ results' = Append(results, out.record)
            /\ credits_used' = out.credits_used
            /\ credits_remaining' = out.credits_remaining
            /\ fetched' = Append(fetched, resp)
            /\ notices' = IF out.raised
                          THEN Append(notices, "error: fetching")
                          ELSE notices
            /\ i' = IF out.raised THEN Len(ASINS) ELSE i + 1
    /\ UNCHANGED <<API_KEY, ASINS, mapping_dict, pc, df, unweighted_mean,
                   weighted_mean, total_reviews_sum, star_totals, totals_row,
                   exported>>

\* lines 80-157: one iteration of the loop, on the remote's answer resp
FetchItem(Responses) ==
    /\ pc = "loop"
    /\ i < Len(ASINS)
    /\ \E resp \in Responses :
        LET out == FetchRecord(ASINS[i + 1], resp, credits_used,
                               credits_remaining, mapping_dict)
        IN  /\ results' = Append(results, out.record)
            /\ credits_used' = out.credits_used
            /\ credits_remaining' = out.credits_remaining
            /\ fetched' = Append(fetched, resp)
            /\ notices' = IF out.raised
                          THEN Append(notices, "error: fetching")
                          ELSE notices
    /\ i' = i + 1
    /\ UNCHANGED <<API_KEY, ASINS, mapping_dict, pc, df, unweighted_mean,
                   weighted_mean, total_reviews_sum, star_totals, totals_row,
                   exported>>

\* lines 159-266: after the loop, the aggregation, the totals row, the export
\* (two sheets, or one when the writer raises) and the credits notice
Aggregate ==
    /\ pc = "loop"
    /\ i = Len(ASINS)
    /\ LET frame == Frame(results) IN
        /\ df' = frame
        /\ unweighted_mean' = UnweightedMean(frame)
        /\ weighted_mean' = WeightedMean(frame)
        /\ total_reviews_sum' = TotalReviewsSum(frame)
        /\ star_totals' = [k \in 1..5 |-> StarTotal(frame, k)]
        /\ totals_row' = TotalsRow(frame)
    /\ \E writer_ok \in BOOLEAN :
        /\ exported' = IF writer_ok THEN "two sheets" ELSE "single sheet"
        /\ notices' =
             (IF writer_ok THEN notices
              ELSE Append(notices, "warning: single-sheet export"))
             \o (IF credits_remaining # None THEN <<"info: credits">> ELSE <<>>)
    /\ pc' = "done"
    /\ UNCHANGED <<API_KEY, ASINS, mapping_dict, i, results, credits_used,
                   credits_remaining, fetched>>

---------------------------------------------------------------------------
(* Inputs *)

\* the most lines typed in the text area
MaxLines == 2

\* the most entries of a product's specification list
MaxSpecs == 2

SeqsUpTo(S, n) == UNION {[1..k -> S] : k \in 0..n}

SeqsFromTo(S, m, n) == UNION {[1..k -> S] : k \in m..n}

Usage(used, remaining) ==
    Dict([credits_used |-> Num(used), credits_remaining |-> Num(remaining)])

Spec1(name, value) == Dict([name |-> Str(name), value |-> value])

NameSize == <<"S","i","z","e">>
NameRozmiar == <<"R","o","z","m","i","a","r">>
NameColour == <<"C","o","l","o","u","r">>
NameBoth == <<"S","I","Z","E","/","c","o","l","o","r">>

Breakdown(five, one) ==
    Dict([five_star |-> Dict([count |-> five]), one_star |-> Dict([count |-> one])])

GoodProduct(rating, total) ==
    Dict([rating |-> Num(rating), ratings_total |-> Num(total),
          specifications |-> List(<<Spec1(NameSize, Str(<<"M">>))>>),
          rating_breakdown |-> Breakdown(Num(3), Num(1))])

\* answers that make the try block raise: the request or the decoding fails,
\* the body is no dict, the usage info is no dict, a specification is no dict
RaisingBeforeUsage == {Raise, List(<<>>), Dict([request_info |-> None])}

RaisingAfterUsage ==
    {Dict([request_info |-> Usage(4, 6),
           product |-> Dict([specifications |-> List(<<None>>)])])}

BatchResponses ==
    RaisingBeforeUsage \cup RaisingAfterUsage \cup
    {Dict([request_info |-> Dict([message |-> Str(<<"n","o">>)])]),
     Dict([request_info |-> Usage(1, 9), product |-> GoodProduct(4500, 10)]),
     Dict([request_info |-> Dict([credits_used |-> Num(3)]),
           product |-> Dict([title |-> Str(<<"t">>)])]),
     Dict([product |-> GoodProduct(4000, 2)])}

BatchLines == {<<" ">>, <<"a">>, <<" ","A"," ">>, <<"b">>}

BatchFiles ==
    {None,
     List(<<[ASIN |-> Str(<<"a">>), Design |-> Str(<<"R">>), Size |-> NaN]>>)}

Init ==
    InitWith({None, Str(<<>>), Str(<<"k">>)},
             {None, Str(<<"p">>)}, {Str(<<>>), Str(<<"p">>)},
             SeqsUpTo(BatchLines, MaxLines), BatchFiles)

Next == ClickFetch \/ FetchItem(BatchResponses) \/ Aggregate

\* The batch over identifier lists, credentials, the password gate and answers
\* that succeed, fail, and carry or lack usage info.
Spec == Init /\ [][Next]_vars

FairResponses ==
    RaisingBeforeUsage \cup RaisingAfterUsage \cup
    {Dict([request_info |-> Usage(1, 9), product |-> GoodProduct(4500, 10)]),
     Dict([product |-> Dict([title |-> Str(<<"t">>)])])}

InitFair ==
    InitWith({Str(<<"k">>)}, {None}, {Str(<<>>)},
             SeqsFromTo({<<"a">>, <<"b">>}, 1, MaxLines),
             {List(<<[ASIN |-> Str(<<"a">>), Design |-> Str(<<"R">>),
                      Size |-> Str(<<"L">>)]>>)})

NextFair == ClickFetch \/ FetchItem(FairResponses) \/ Aggregate

\* A started batch that runs to its end: the script is one thread, each
\* request returns or times out (timeout=30), so a step that can be taken is
\* taken.
FairSpec == InitFair /\ [][NextFair]_vars /\ WF_vars(NextFair)

---------------------------------------------------------------------------
(* The batch runner *)

\* C1: when the batch has completed over the identifier list ASINS (duplicates
\* allowed), there is one request and one record per identifier, and the k-th
\* record carries the k-th identifier: nothing is deduplicated, retried or
\* reordered.  While the loop runs, the records are those of the first i
\* identifiers.
C1_OneRecordPerIdentifier ==
    /\ pc \in {"loop", "done"} =>
          /\ Len(results) = i
          /\ Len(fetched) = i
          /\ \A k \in 1..i : results[k].ASIN = ASINS[k]
    /\ pc = "done" => i = Len(ASINS)

\* a completed run over a list that repeats an identifier
C1_Witness ==
    /\ pc = "done"
    /\ Len(ASINS) = 2
    /\ ASINS[1] = ASINS[2]
    /\ Len(results) = 2
    /\ results[1] # results[2]

BatchRaising == RaisingBeforeUsage \cup RaisingAfterUsage

\* C2: every identifier whose fetch raises gets one record with the rating,
\* the review count, the five star fields, Design and Size all None, and the
\* batch goes on: from a loop whose last fetch raised, the run reaches the
\* aggregation with a record for every identifier.
C2_FailureAbsorbed ==
    /\ [](\A k \in DOMAIN results :
             fetched[k] \in BatchRaising =>
                 /\ results[k].ASIN = ASINS[k]
                 /\ results[k].Design = None /\ results[k].Size = None
                 /\ results[k].AverageRating = None
                 /\ results[k].TotalReviews = None
                 /\ \A b \in 1..5 : results[k].Stars[b] = None)
    /\ (pc = "loop" /\ fetched # <<>> /\ fetched[Len(fetched)] \in BatchRaising)
          ~> (pc = "done" /\ Len(results) = Len(ASINS) /\ Len(df) = Len(ASINS))

\* a completed run whose first fetch, of an identifier with an override,
\* raised and whose second gave a rating
C2_Witness ==
    /\ pc = "done"
    /\ Len(fetched) = 2
    /\ fetched[1] \in BatchRaising
    /\ LookupKey(ASINS[1]) \in DOMAIN mapping_dict.v
    /\ results[1].Design = None
    /\ fetched[2] \notin BatchRaising
    /\ results[1].AverageRating = None
    /\ results[2].AverageRating # None

\* C3: a click with no credential or with no identifier blocks the run: no
\* request, no record, no aggregation, no export, and an error or a warning is
\* shown; a run is blocked by these two conditions only, and never starts
\* under either.
C3_BlockedRun ==
    /\ pc = "blocked" =>
          /\ ~Truthy(API_KEY) \/ Len(ASINS) = 0
          /\ fetched = <<>> /\ results = <<>> /\ i = 0
          /\ df = <<>> /\ totals_row = None /\ unweighted_mean = None
          /\ weighted_mean = None /\ total_reviews_sum = None
          /\ exported = "none"
          /\ notices # <<>>
          /\ notices[Len(notices)] \in {"error: API key not found",
                                        "warning: enter at least one ASIN"}
    /\ pc \in {"loop", "done"} => Truthy(API_KEY) /\ Len(ASINS) > 0
    /\ pc = "ready" /\ Truthy(API_KEY) /\ Len(ASINS) > 0 =>
          ENABLED (ClickFetch /\ pc' = "loop")

\* a click with a credential and an empty list
C3_Witness ==
    /\ pc = "blocked"
    /\ Truthy(API_KEY)
    /\ Len(ASINS) = 0
    /\ notices[Len(notices)] = "warning: enter at least one ASIN"

\* whether the answer resp carries the counter key in a usage-info dict
Carries(resp, key) ==
    /\ IsDict(resp)
    /\ "request_info" \in DOMAIN resp.v
    /\ IsDict(resp.v.request_info)
    /\ key \in DOMAIN resp.v.request_info.v

\* the value of counter key in the latest answer that carries it
LastSeen(key, initial) ==
    LET S == {k \in DOMAIN fetched : Carries(fetched[k], key)} IN
    IF S = {} THEN initial
    ELSE fetched[CHOOSE k \in S : \A j \in S : j <= k].v.request_info.v[key]

\* C9: the quota counters are overwritten, never accumulated: after any
\* sequence of fetches each counter holds the value of the latest decoded
\* response whose usage info carried it (0 and None before any); a response
\* without usage info, and a fetch that fails before its body is decoded,
\* leave both as they were.
C9_QuotaLastSeen ==
    pc \in {"loop", "done"} =>
        /\ credits_used = LastSeen("credits_used", Num(0))
        /\ credits_remaining = LastSeen("credits_remaining", None)

\* two responses with different usage, then the counters of the second
C9_Witness ==
    /\ Len(fetched) = 2
    /\ Carries(fetched[1], "credits_used")
    /\ Carries(fetched[1], "credits_remaining")
    /\ Carries(fetched[2], "credits_used")
    /\ Carries(fetched[2], "credits_remaining")
    /\ fetched[1].v.request_info # fetched[2].v.request_info
    /\ credits_used = fetched[2].v.request_info.v.credits_used
    /\ credits_remaining = fetched[2].v.request_info.v.credits_remaining

---------------------------------------------------------------------------
(* Attributes and the override mapping *)

AttrNames == {NameRozmiar, NameColour, NameBoth}

AttrValues == {None, Str(<<>>), Num(0), Str(<<"X">>), Str(<<"Y">>)}

AttrSpecs == {Spec1(name, value) : name \in AttrNames, value \in AttrValues}

\* a product with each specification list and no rating; a rated product with
\* each list of at most one entry, and with no list; no product; a request
\* that raises
AttrResponses ==
    {Dict([product |-> Dict([specifications |-> List(l)])]) :
        l \in SeqsUpTo(AttrSpecs, MaxSpecs)}
    \cup {Dict([product |-> Dict([specifications |-> List(l),
                                  rating |-> Num(4500)])]) :
        l \in SeqsUpTo(AttrSpecs, 1)}
    \cup {Dict([product |-> Dict([rating |-> Num(4500)])]), EmptyDict, Raise}

\* one row for identifier "a", typed with a leading blank, in lower case
AttrFiles ==
    {None} \cup
    {List(<<[ASIN |-> Str(<<" ","a">>), Design |-> r[1], Size |-> r[2]]>>) :
        r \in {<<NaN, Str(<<"L">>)>>, <<None, NaN>>, <<Str(<<" ">>), Str(<<"L">>)>>,
               <<Str(<<"R">>), NaN>>, <<Str(<<"R">>), Str(<<" "," ">>)>>,
               <<Str(<<"R">>), Str(<<"L">>)>>}}

AttrLines == {<<"a">>, <<"b">>}

InitAttr ==
    InitWith({Str(<<"k">>)}, {None}, {Str(<<>>)},
             SeqsFromTo(AttrLines, 1, 1), AttrFiles)

NextAttr == ClickFetch \/ FetchItem(AttrResponses) \/ Aggregate

\* One identifier, over every specification list of up to MaxSpecs entries and
\* every override row.
SpecAttr == InitAttr /\ [][NextAttr]_vars

\* the specification list of the k-th answer, empty when it has none
SpecsOf(k) ==
    IF ~IsDict(fetched[k]) THEN <<>>
    ELSE LET product == Get(fetched[k], "product", EmptyDict)
             specs == Get(product, "specifications", List(<<>>))
         IN  specs.v

SizeTokens == {TokRozmiar, TokSize}

DesignTokens == {TokColour, TokColor, TokDedesignsen}

\* whether a specification's lower-cased name holds one of the tokens
Named(sp, tokens) == \E tok \in tokens : Contains(Lower(sp.v.name.v), tok)

\* the values, in order, of the specifications named by one of the tokens
Matches(specs, tokens) ==
    LET hits == SelectSeq(specs, LAMBDA sp : Named(sp, tokens))
    IN  [k \in DOMAIN hits |-> hits[k].v.value]

\* first match wins: the value of the first matching specification that has
\* one
FirstMatch(specs, tokens) ==
    LET given == SelectSeq(Matches(specs, tokens), LAMBDA x : x # None) IN
    IF given = <<>> THEN None ELSE given[1]

\* the first matching value that is truthy; failing that the last that is
\* not None; failing that None
FirstUsableMatch(specs, tokens) ==
    LET vals == Matches(specs, tokens)
        usable == SelectSeq(vals, Truthy)
        given == SelectSeq(vals, LAMBDA x : x # None)
    IN  IF usable # <<>> THEN usable[1]
        ELSE IF given # <<>> THEN given[Len(given)]
        ELSE None

HasOverride(k) == LookupKey(ASINS[k]) \in DOMAIN mapping_dict.v

Blank(m) == ~IsStr(m) \/ \A c \in DOMAIN m.v : m.v[c] = " "

\* C10 as claimed: Size is the value of the first specification whose name
\* holds a size token and Design that of the first whose name holds a colour
\* token, whatever that first value is (a specification with no value, which
\* the scan skips, is not counted as a match).
C10_FirstMatchWins ==
    \A k \in DOMAIN results :
        fetched[k] # Raise /\ ~HasOverride(k) =>
            /\ results[k].Size = FirstMatch(SpecsOf(k), SizeTokens)
            /\ results[k].Design = FirstMatch(SpecsOf(k), DesignTokens)

\* C10, amended: Size is the value of the first specification whose name holds
\* a size token and whose value is neither None nor empty, and later matches
\* are ignored; when no match has such a value, Size is the last matching
\* value that is not None, or None.  The same for Design with the colour
\* tokens.
C10_FirstUsableMatchWins ==
    \A k \in DOMAIN results :
        fetched[k] # Raise /\ ~HasOverride(k) =>
            /\ results[k].Size = FirstUsableMatch(SpecsOf(k), SizeTokens)
            /\ results[k].Design = FirstUsableMatch(SpecsOf(k), DesignTokens)

\* two size specifications with usable values: the first is kept
C10_Witness ==
    /\ Len(results) = 1
    /\ ~HasOverride(1)
    /\ Len(SpecsOf(1)) = 2
    /\ Matches(SpecsOf(1), SizeTokens) = <<Str(<<"X">>), Str(<<"Y">>)>>
    /\ results[1].Size = Str(<<"X">>)

\* C4: for an identifier whose fetch does not raise and whose normalized form
\* has an override entry, Design is the override's Design when that is not
\* blank, and the API-derived Design (None when there is none) when it is
\* blank or missing; the same, independently, for Size; with or without
\* specifications, with or without a rating.
C4_OverridePrecedence ==
    \A k \in DOMAIN results :
        fetched[k] # Raise /\ HasOverride(k) =>
            LET entry == mapping_dict.v[LookupKey(ASINS[k])].v IN
            /\ results[k].Design =
                  IF Blank(entry.Design)
                  THEN FirstUsableMatch(SpecsOf(k), DesignTokens)
                  ELSE entry.Design
            /\ results[k].Size =
                  IF Blank(entry.Size)
                  THEN FirstUsableMatch(SpecsOf(k), SizeTokens)
                  ELSE entry.Size

\* an override with a Design and no Size, on a product with both from the API
C4_Witness ==
    /\ Len(results) = 1
    /\ ASINS[1] = <<"a">>
    /\ HasOverride(1)
    /\ mapping_dict.v[<<"A">>].v.Design = Str(<<"R">>)
    /\ mapping_dict.v[<<"A">>].v.Size = NaN
    /\ FirstUsableMatch(SpecsOf(1), DesignTokens) = Str(<<"X">>)
    /\ FirstUsableMatch(SpecsOf(1), SizeTokens) = Str(<<"Y">>)
    /\ results[1].Design = Str(<<"R">>)
    /\ results[1].Size = Str(<<"Y">>)

---------------------------------------------------------------------------
(* The aggregator *)

AggRatings == {None, Num(4000), Num(4501), Str(<<"n","/","a">>)}

AggTotals == {None, Num(0), Num(3), Str(<<"2">>)}

AggBreakdowns ==
    {Breakdown(Num(2), None),
     Dict([five_star |-> Dict(<<>>), four_star |-> Dict([count |-> Num(1)]),
           two_star |-> Dict([count |-> Num(4)])])}

\* rated products over the ratings, review counts and breakdowns; one without
\* a breakdown; a product without a rating; a breakdown with a null bucket
\* (which raises); a request that raises
AggResponses ==
    {Dict([product |-> Dict([rating |-> r, ratings_total |-> n,
                             rating_breakdown |-> b])]) :
        r \in AggRatings, n \in AggTotals, b \in AggBreakdowns}
    \cup {Dict([product |-> Dict([rating |-> Num(4000), ratings_total |-> Num(3)])]),
          Dict([product |-> Dict([ratings_total |-> Num(3)])]),
          Dict([product |-> Dict([rating |-> Num(4000), ratings_total |-> Num(3),
                                  rating_breakdown |-> Dict([five_star |-> None])])]),
          Raise}

InitAgg ==
    InitWith({Str(<<"k">>)}, {None}, {Str(<<>>)},
             SeqsFromTo({<<"a">>}, 1, MaxLines), {None})

NextAgg == ClickFetch \/ FetchItem(AggResponses) \/ Aggregate

\* Up to MaxLines records over ratings, review counts and star breakdowns that
\* are numbers, null, missing or not numeric.
SpecAgg == InitAgg /\ [][NextAgg]_vars

\* the rows of the frame whose rating is not null
Rated == {k \in DOMAIN df : NotNa(df[k].AverageRating)}

RECURSIVE RatingSum(_)
RatingSum(S) ==
    IF S = {} THEN 0
    ELSE LET k == CHOOSE k \in S : TRUE
         IN  df[k].AverageRating.v + RatingSum(S \ {k})

\* C5: when the sum of the review counts is 0 the weighted mean is absent;
\* otherwise it lies between the least and the greatest rating present.
C5_WeightedMeanBounded ==
    pc = "done" =>
        /\ total_reviews_sum = 0 => weighted_mean = None
        /\ total_reviews_sum > 0 =>
              /\ IsNum(weighted_mean)
              /\ \E k \in DOMAIN df :
                    /\ NotNa(df[k].AverageRating)
                    /\ df[k].AverageRating.v <= weighted_mean.v
              /\ \E k \in DOMAIN df :
                    /\ NotNa(df[k].AverageRating)
                    /\ df[k].AverageRating.v >= weighted_mean.v

\* C6: a record with a null rating has a null review count, as fetched and
\* after the numeric coercion.
C6_NullRatingNullTotal ==
    /\ \A k \in DOMAIN results :
          results[k].AverageRating = None => results[k].TotalReviews = None
    /\ \A k \in DOMAIN df :
          ~NotNa(df[k].AverageRating) => ~NotNa(df[k].TotalReviews)

\* C7: the unweighted mean is the mean of exactly the ratings that are numbers,
\* to the nearest thousandth (failed and rating-less records count neither
\* above nor below the line); it is absent when there is none; and the GRAND
\* TOTAL row carries it under AverageRating.
C7_UnweightedMean ==
    pc = "done" =>
        /\ Rated = {} => unweighted_mean = None
        /\ Rated # {} =>
              /\ IsNum(unweighted_mean)
              /\ LET n == Cardinality(Rated)
                     d == unweighted_mean.v * n - RatingSum(Rated)
                 IN  2 * d <= n /\ -2 * d <= n
        /\ \A k \in DOMAIN results :
              results[k].AverageRating = None => k \notin Rated
        /\ totals_row.AverageRating = unweighted_mean
        /\ totals_row.ASIN = GrandTotal

\* a rated record beside a failed one and the mean of the rated one alone
C7_Witness ==
    /\ pc = "done"
    /\ Len(results) = 2
    /\ Cardinality(Rated) = 1
    /\ fetched[2] = Raise
    /\ unweighted_mean = Num(4501)

\* the count a record brings to a bucket: null or missing brings 0
Brought(x) == IF IsNum(x) THEN x.v ELSE 0

RECURSIVE BroughtSum(_, _)
BroughtSum(k, b) ==
    IF k = 0 THEN 0 ELSE BroughtSum(k - 1, b) + Brought(results[k].Stars[b])

\* C8: each of the five star totals is the sum over all records of the
\* record's count for that bucket, a null or missing count (so every failed
\* record) bringing 0; no total is negative.
C8_StarTotals ==
    pc = "done" =>
        \A b \in 1..5 :
            /\ star_totals[b] = BroughtSum(Len(results), b)
            /\ star_totals[b] >= 0
            /\ totals_row.Stars[b] = Num(star_totals[b])

\* two records with different buckets filled, one bucket null
C8_Witness ==
    /\ pc = "done"
    /\ Len(results) = 2
    /\ results[1].Stars[1] = Num(2)
    /\ results[1].Stars[5] = None
    /\ results[2].Stars[2] = Num(1)
    /\ star_totals = <<2, 1, 0, 4, 0>>

====
